---- MODULE Spec2Model ----
(***************************************************************************)
(* DOCX -> Org-mode conversion engine of SYKhayyat/Scripts                 *)
(* (src/docx_to_org_enhanced/docx_to_org_complete.py,                      *)
(* class DocxToOrgCompleteConverter).                                      *)
(*                                                                         *)
(* Text is a sequence of one-character strings; a character outside ASCII  *)
(* is written by its code point ("U+2022").  An output line is such a      *)
(* sequence, the written file is the lines joined by two newlines.         *)
(***************************************************************************)
EXTENDS Integers, Sequences, FiniteSets, TLC

(***************************************************************************)
(* Bounds of the model.                                                    *)
(***************************************************************************)
MaxParas == 2        \* paragraphs per document, Spec and SpecBatch
MaxListParas == 4    \* paragraphs per document, SpecList
MaxLevel == 2        \* deepest nesting level offered as input

(***************************************************************************)
(* Python str primitives.                                                  *)
(***************************************************************************)
Whitespace == {" ", "\t", "\n"}

RECURSIVE lstrip(_)
lstrip(s) ==
    IF s # <<>> /\ Head(s) \in Whitespace THEN lstrip(Tail(s)) ELSE s

RECURSIVE rstrip(_)
rstrip(s) ==
    IF s # <<>> /\ s[Len(s)] \in Whitespace
    THEN rstrip(SubSeq(s, 1, Len(s) - 1)) ELSE s

strip(s) == rstrip(lstrip(s))

UpperCase ==
    <<"A", "B", "C", "D", "E", "F", "G", "H", "I", "J", "K", "L", "M",
      "N", "O", "P", "Q", "R", "S", "T", "U", "V", "W", "X", "Y", "Z">>

LowerCase ==
    <<"a", "b", "c", "d", "e", "f", "g", "h", "i", "j", "k", "l", "m",
      "n", "o", "p", "q", "r", "s", "t", "u", "v", "w", "x", "y", "z">>

\* str.lower()
lower(s) ==
    [i \in 1..Len(s) |->
        IF \E u \in 1..26 : UpperCase[u] = s[i]
        THEN LowerCase[CHOOSE u \in 1..26 : UpperCase[u] = s[i]]
        ELSE s[i]]

\* str.endswith(suffix)
endswith(s, suffix) ==
    /\ Len(s) >= Len(suffix)
    /\ SubSeq(s, Len(s) - Len(suffix) + 1, Len(s)) = suffix

\* str.replace(old, new): every occurrence, left to right, case-sensitive
RECURSIVE replace(_, _, _)
replace(s, old, new) ==
    IF Len(s) < Len(old) THEN s
    ELSE IF SubSeq(s, 1, Len(old)) = old
    THEN new \o replace(SubSeq(s, Len(old) + 1, Len(s)), old, new)
    ELSE << Head(s) >> \o replace(Tail(s), old, new)

\* ''.join(parts)
RECURSIVE join(_)
join(parts) ==
    IF parts = <<>> THEN <<>> ELSE Head(parts) \o join(Tail(parts))

\* sep.join(parts)
RECURSIVE join_sep(_, _)
join_sep(sep, parts) ==
    IF parts = <<>> THEN <<>>
    ELSE IF Len(parts) = 1 THEN Head(parts)
    ELSE Head(parts) \o sep \o join_sep(sep, Tail(parts))

DigitChar == <<"0", "1", "2", "3", "4", "5", "6", "7", "8", "9">>

\* str(n) for n >= 0, as f"{n}" renders it
RECURSIVE str_int(_)
str_int(n) ==
    IF n < 10 THEN <<DigitChar[n + 1]>>
    ELSE str_int(n \div 10) \o <<DigitChar[(n % 10) + 1]>>

\* '  ' * level
RECURSIVE indent_of(_)
indent_of(level) ==
    IF level <= 0 THEN <<>> ELSE <<" ", " ">> \o indent_of(level - 1)

(***************************************************************************)
(* The list-marker regular expressions.  Every pattern of the source has   *)
(* the shape  ^ class[+] [separator] \s+ ; re_match gives the length of    *)
(* the match at the start of the text, 0 when there is none.               *)
(***************************************************************************)
Digits == {"0", "1", "2", "3", "4", "5", "6", "7", "8", "9"}
Letters ==
    {"a", "b", "c", "d", "e", "f", "g", "h", "i", "j", "k", "l", "m",
     "n", "o", "p", "q", "r", "s", "t", "u", "v", "w", "x", "y", "z",
     "A", "B", "C", "D", "E", "F", "G", "H", "I", "J", "K", "L", "M",
     "N", "O", "P", "Q", "R", "S", "T", "U", "V", "W", "X", "Y", "Z"}

bullet_patterns ==
    << [cls |-> {"U+2022", "U+00B7", "U+25AA", "U+25AB", "U+2023", "U+2043"},
        plus |-> FALSE, sep |-> <<>>],
       [cls |-> {"o", "*", "+", "U+2212", "-"}, plus |-> FALSE, sep |-> <<>>],
       [cls |-> {"U+25E6", "U+25C9", "U+25CB", "U+25CF"},
        plus |-> FALSE, sep |-> <<>>] >>

numbered_patterns ==
    << [cls |-> Digits, plus |-> TRUE, sep |-> <<".">>],
       [cls |-> Digits, plus |-> TRUE, sep |-> <<")">>],
       [cls |-> Letters, plus |-> FALSE, sep |-> <<".">>],
       [cls |-> Letters, plus |-> FALSE, sep |-> <<")">>],
       [cls |-> {"i", "v", "x", "l", "I", "V", "X", "L"},
        plus |-> TRUE, sep |-> <<".">>],
       [cls |-> {"I", "V", "X", "L"}, plus |-> TRUE, sep |-> <<")">>] >>

\* clean_list_text repeats the first bullet class as a fourth pattern
clean_bullet_patterns ==
    bullet_patterns \o << [cls |-> {"U+2022"}, plus |-> FALSE, sep |-> <<>>] >>

\* number of leading characters of s that belong to set c
RECURSIVE span(_, _)
span(c, s) ==
    IF s # <<>> /\ Head(s) \in c THEN 1 + span(c, Tail(s)) ELSE 0

re_match(pat, text) ==
    LET n0 == span(pat.cls, text)
        n == IF pat.plus THEN n0 ELSE IF n0 >= 1 THEN 1 ELSE 0
        k == Len(pat.sep)
        afterCls == SubSeq(text, n + 1, Len(text))
        sepOk == Len(afterCls) >= k /\ SubSeq(afterCls, 1, k) = pat.sep
        afterSep == SubSeq(afterCls, k + 1, Len(afterCls))
        ws == span(Whitespace, afterSep)
    IN IF n >= 1 /\ sepOk /\ ws >= 1 THEN n + k + ws ELSE 0

\* re.sub(pattern, '', text) for a pattern anchored at the start
re_sub(pat, text) ==
    SubSeq(text, re_match(pat, text) + 1, Len(text))

\* for pattern in patterns: text = re.sub(pattern, '', text)
RECURSIVE re_sub_all(_, _)
re_sub_all(pats, text) ==
    IF pats = <<>> THEN text
    ELSE re_sub_all(Tail(pats), re_sub(Head(pats), text))

any_match(pats, text) ==
    \E i \in 1..Len(pats) : re_match(pats[i], text) > 0

(***************************************************************************)
(* A paragraph as the document library exposes it:                         *)
(*   style_name, style_id  lower-cased style name / id, split into words   *)
(*   style_ilvl            value of w:ilvl in the style XML, -1 if absent  *)
(*   numPr                 the paragraph's w:numPr: present, ilvl (-1 if   *)
(*                         absent), numId (whether w:numId is there)       *)
(*   alignment             "center", "left" or "none"                      *)
(*   runs                  sequence of [text, bold, refs]; refs are the    *)
(*                         note-reference elements of the run, each        *)
(*                         [kind, id], id "" when the attribute is absent  *)
(***************************************************************************)
paragraph_text(paragraph) ==
    join([i \in 1..Len(paragraph.runs) |-> paragraph.runs[i].text])

contains_word(name, w) == \E i \in 1..Len(name) : name[i] = w

endswith_word(name, w) == Len(name) >= 2 /\ name[Len(name)] = w

is_centered(paragraph) == paragraph.alignment = "center"

has_bold_text(paragraph) ==
    \E i \in 1..Len(paragraph.runs) : paragraph.runs[i].bold

\* docx_to_org_enhanced.py: heading level of a style, 0 = not a heading
heading_word(name) ==
    IF Len(name) = 2 /\ name[1] = "heading" /\ name[2] \in (Digits \ {"0"})
    THEN CHOOSE n \in 1..9 : DigitChar[n + 1] = name[2]
    ELSE IF Len(name) = 1 /\ \E n \in 1..9 :
                name[1] = "heading" \o DigitChar[n + 1]
    THEN CHOOSE n \in 1..9 : name[1] = "heading" \o DigitChar[n + 1]
    ELSE 0

detect_heading_level(paragraph) ==
    IF heading_word(paragraph.style_name) > 0
    THEN heading_word(paragraph.style_name)
    ELSE IF heading_word(paragraph.style_id) > 0
    THEN heading_word(paragraph.style_id)
    ELSE IF paragraph.style_name \in {<<"title">>, <<"subtitle">>} THEN 1
    ELSE 0

\* level of a list style: w:ilvl of the style, else the name's suffix
style_list_level(paragraph) ==
    LET level_val ==
            IF paragraph.style_ilvl >= 0 THEN paragraph.style_ilvl ELSE 0
    IN IF level_val # 0 THEN level_val
       ELSE IF endswith_word(paragraph.style_name, "2") THEN 1
       ELSE IF endswith_word(paragraph.style_name, "3") THEN 2
       ELSE 0

NoList == [type |-> "none", level |-> 0]

detect_list_type_and_level(paragraph) ==
    LET name == paragraph.style_name
        text == strip(paragraph_text(paragraph))
        byStyle ==
            IF ~contains_word(name, "list") THEN NoList
            ELSE IF contains_word(name, "bullet")
                    \/ contains_word(name, "unordered")
            THEN [type |-> "unordered", level |-> style_list_level(paragraph)]
            ELSE IF contains_word(name, "number")
                    \/ contains_word(name, "ordered")
            THEN [type |-> "ordered", level |-> style_list_level(paragraph)]
            ELSE NoList
        byNumPr ==
            LET level == IF paragraph.numPr.ilvl >= 0
                         THEN paragraph.numPr.ilvl ELSE 0
            IN IF ~paragraph.numPr.present THEN NoList
               ELSE IF paragraph.numPr.numId
               THEN [type |-> "ordered", level |-> level]
               ELSE [type |-> "unordered", level |-> level]
        byText ==
            IF text = <<>> THEN NoList
            ELSE IF any_match(bullet_patterns, text)
            THEN [type |-> "unordered", level |-> 0]
            ELSE IF any_match(numbered_patterns, text)
            THEN [type |-> "ordered", level |-> 0]
            ELSE IF (Len(text) >= 4
                     /\ SubSeq(text, 1, 4) = <<" ", " ", " ", " ">>)
                    \/ Head(text) = "\t"
            THEN [type |-> "unordered", level |-> 1]
            ELSE NoList
    IN IF byStyle.type # "none" THEN byStyle
       ELSE IF byNumPr.type # "none" THEN byNumPr
       ELSE byText

clean_list_text(text, list_type) ==
    LET t == strip(text)
    IN IF list_type = "unordered"
       THEN strip(re_sub_all(clean_bullet_patterns, t))
       ELSE IF list_type = "ordered"
       THEN strip(re_sub_all(numbered_patterns, t))
       ELSE strip(t)

\* item_number 0 stands for None
get_org_list_prefix(list_type, level, item_number) ==
    LET indent == indent_of(level)
        bullets == <<"-", "+", "*">>
    IN IF list_type = "unordered"
       THEN indent \o <<bullets[(level % Len(bullets)) + 1], " ">>
       ELSE IF list_type = "ordered"
       THEN indent
            \o str_int(IF item_number = 0 THEN 1 ELSE item_number)
            \o <<".", " ">>
       ELSE <<>>

(***************************************************************************)
(* Reference resolver.  footnotes is the table: a sequence of [id, text].  *)
(***************************************************************************)
fn_token(n) == <<"[", "f", "n", ":">> \o str_int(n) \o <<"]">>

\* variant: an id that is not in the table resolves to number 1
footnote_num_of_default(footnotes, ref_id) ==
    IF \E i \in 1..Len(footnotes) : footnotes[i].id = ref_id
    THEN CHOOSE i \in 1..Len(footnotes) :
            /\ footnotes[i].id = ref_id
            /\ \A j \in 1..(i - 1) : footnotes[j].id # ref_id
    ELSE 1

\* variant: the scan keeps the last record with the id
footnote_num_of_last(footnotes, ref_id) ==
    IF \E i \in 1..Len(footnotes) : footnotes[i].id = ref_id
    THEN CHOOSE i \in 1..Len(footnotes) :
            /\ footnotes[i].id = ref_id
            /\ \A j \in (i + 1)..Len(footnotes) : footnotes[j].id # ref_id
    ELSE 0

\* for i, fn in enumerate(self.footnotes): first i + 1 with fn['id'] == ref_id
footnote_num_of(footnotes, ref_id) ==
    IF \E i \in 1..Len(footnotes) : footnotes[i].id = ref_id
    THEN CHOOSE i \in 1..Len(footnotes) :
            /\ footnotes[i].id = ref_id
            /\ \A j \in 1..(i - 1) : footnotes[j].id # ref_id
    ELSE 0

\* the elements run_xml.findall('.//w:footnoteReference') selects
RefKinds == {"footnoteReference"}

RECURSIVE refs_of_run(_, _, _)
refs_of_run(footnotes, refs, run_idx) ==
    IF refs = <<>> THEN <<>>
    ELSE LET ref == Head(refs)
             num == footnote_num_of(footnotes, ref.id)
             here == IF ref.kind \in RefKinds /\ ref.id # "" /\ num > 0
                     THEN << <<run_idx, fn_token(num)>> >>
                     ELSE <<>>
         IN here \o refs_of_run(footnotes, Tail(refs), run_idx)

RECURSIVE refs_from(_, _, _)
refs_from(footnotes, runs, run_idx) ==
    IF runs = <<>> THEN <<>>
    ELSE refs_of_run(footnotes, Head(runs).refs, run_idx)
         \o refs_from(footnotes, Tail(runs), run_idx + 1)

\* variant: a reference that matches no record ends the scan without markers
find_footnote_references_abort_on_miss(footnotes, paragraph) ==
    IF \E r \in 1..Len(paragraph.runs) :
          \E q \in 1..Len(paragraph.runs[r].refs) :
             /\ paragraph.runs[r].refs[q].kind \in RefKinds
             /\ paragraph.runs[r].refs[q].id # ""
             /\ footnote_num_of(footnotes, paragraph.runs[r].refs[q].id) = 0
    THEN <<>>
    ELSE refs_from(footnotes, paragraph.runs, 0)

\* sequence of (run_idx, replacement), run_idx counted from 0
find_footnote_references_in_paragraph(footnotes, paragraph) ==
    refs_from(footnotes, paragraph.runs, 0)

\* [ref for ref in footnote_refs if ref[0] == run_idx], replacements only
RECURSIVE run_footnotes(_, _)
run_footnotes(footnote_refs, run_idx) ==
    IF footnote_refs = <<>> THEN <<>>
    ELSE (IF Head(footnote_refs)[1] = run_idx
          THEN Head(footnote_refs)[2] ELSE <<>>)
         \o run_footnotes(Tail(footnote_refs), run_idx)

RECURSIVE splice_from(_, _, _)
splice_from(footnote_refs, runs, run_idx) ==
    IF runs = <<>> THEN <<>>
    ELSE Head(runs).text \o run_footnotes(footnote_refs, run_idx)
         \o splice_from(footnote_refs, Tail(runs), run_idx + 1)

\* variant: the tokens of a run are put ahead of its text
_process_text_tokens_first(footnotes, paragraph) ==
    LET footnote_refs ==
            find_footnote_references_in_paragraph(footnotes, paragraph)
    IN join([r \in 1..Len(paragraph.runs) |->
                run_footnotes(footnote_refs, r - 1) \o paragraph.runs[r].text])

_process_text_with_footnotes(footnotes, paragraph) ==
    LET footnote_refs ==
            find_footnote_references_in_paragraph(footnotes, paragraph)
    IN IF footnote_refs = <<>> THEN paragraph_text(paragraph)
       ELSE splice_from(footnote_refs, paragraph.runs, 0)

(***************************************************************************)
(* Bold segmentation.                                                      *)
(***************************************************************************)
\* footnote_ref_map = {run_idx: ref for run_idx, ref in footnote_refs}:
\* a later marker of the same run replaces an earlier one
RECURSIVE footnote_ref_map_get(_, _)
footnote_ref_map_get(footnote_refs, run_idx) ==
    IF footnote_refs = <<>> THEN <<>>
    ELSE LET last == footnote_refs[Len(footnote_refs)]
         IN IF last[1] = run_idx THEN last[2]
            ELSE footnote_ref_map_get(
                     SubSeq(footnote_refs, 1, Len(footnote_refs) - 1), run_idx)

\* the loop over the runs; acc holds bold_text, regular_text and the two
\* accumulators current_bold, current_regular (lists of run texts)
RECURSIVE bold_walk(_, _, _, _)
bold_walk(footnote_refs, runs, run_idx, acc) ==
    IF runs = <<>> THEN acc
    ELSE LET run == Head(runs)
             run_text == run.text \o footnote_ref_map_get(footnote_refs, run_idx)
             next ==
                IF run.bold
                THEN [bold_text |-> acc.bold_text,
                      regular_text |->
                          IF acc.current_regular # <<>>
                          THEN Append(acc.regular_text, join(acc.current_regular))
                          ELSE acc.regular_text,
                      current_bold |-> Append(acc.current_bold, run_text),
                      current_regular |-> <<>>]
                ELSE [bold_text |->
                          IF acc.current_bold # <<>>
                          THEN Append(acc.bold_text, join(acc.current_bold))
                          ELSE acc.bold_text,
                      regular_text |-> acc.regular_text,
                      current_bold |-> <<>>,
                      current_regular |-> Append(acc.current_regular, run_text)]
         IN bold_walk(footnote_refs, Tail(runs), run_idx + 1, next)

\* returns [bold_text, regular_text]
extract_bold_portions_with_footnotes(footnotes, paragraph) ==
    LET footnote_refs ==
            find_footnote_references_in_paragraph(footnotes, paragraph)
        acc == bold_walk(footnote_refs, paragraph.runs, 0,
                         [bold_text |-> <<>>, regular_text |-> <<>>,
                          current_bold |-> <<>>, current_regular |-> <<>>])
    IN [bold_text |->
            IF acc.current_bold # <<>>
            THEN Append(acc.bold_text, join(acc.current_bold))
            ELSE acc.bold_text,
        regular_text |->
            IF acc.current_regular # <<>>
            THEN Append(acc.regular_text, join(acc.current_regular))
            ELSE acc.regular_text]

\* for part in parts: if part.strip(): lines.append(prefix + part.strip())
RECURSIVE portion_lines(_, _)
portion_lines(prefix, parts) ==
    IF parts = <<>> THEN <<>>
    ELSE (IF strip(Head(parts)) # <<>>
          THEN << prefix \o strip(Head(parts)) >> ELSE <<>>)
         \o portion_lines(prefix, Tail(parts))

(***************************************************************************)
(* process_paragraph.  self is the converter: [footnotes,                  *)
(* list_depth_stack, list_item_counters].  The result is the emitted lines *)
(* and the converter's list state afterwards.                              *)
(***************************************************************************)
\* variant: the stacks grow and are never cut back
resize_grow_only(stack, level, fill) ==
    stack \o [i \in 1..(level + 1 - Len(stack)) |-> fill]

\* while len(stack) > level + 1: pop;  while len(stack) < level + 1: append
resize(stack, level, fill) ==
    IF Len(stack) > level + 1 THEN SubSeq(stack, 1, level + 1)
    ELSE stack \o [i \in 1..(level + 1 - Len(stack)) |-> fill]

\* variant: the counter of an ordered item is not advanced
list_item_no_increment(self, processed_text, list_type, level) ==
    LET cleaned_text == clean_list_text(processed_text, list_type)
        depth == resize(self.list_depth_stack, level, list_type)
        counters == resize(self.list_item_counters, level, 1)
        item_number == IF list_type = "ordered" THEN counters[level + 1] ELSE 0
        counters2 ==
            IF list_type = "ordered"
            THEN counters
            ELSE IF level < Len(counters)
            THEN [counters EXCEPT ![level + 1] = 1]
            ELSE counters
        prefix == get_org_list_prefix(list_type, level,
                      IF list_type = "ordered" THEN item_number ELSE 1)
    IN [lines |-> << prefix \o cleaned_text >>,
        list_depth_stack |-> depth,
        list_item_counters |-> counters2]

\* variant: an ordered item below level 0 also counts at the level above
list_item_counts_parent(self, processed_text, list_type, level) ==
    LET cleaned_text == clean_list_text(processed_text, list_type)
        depth == resize(self.list_depth_stack, level, list_type)
        counters == resize(self.list_item_counters, level, 1)
        item_number == IF list_type = "ordered" THEN counters[level + 1] ELSE 0
        counters2 ==
            IF list_type = "ordered"
            THEN IF level > 0
                 THEN [counters EXCEPT ![level + 1] = @ + 1, ![level] = @ + 1]
                 ELSE [counters EXCEPT ![level + 1] = @ + 1]
            ELSE IF level < Len(counters)
            THEN [counters EXCEPT ![level + 1] = 1]
            ELSE counters
        prefix == get_org_list_prefix(list_type, level,
                      IF list_type = "ordered" THEN item_number ELSE 1)
    IN [lines |-> << prefix \o cleaned_text >>,
        list_depth_stack |-> depth,
        list_item_counters |-> counters2]

\* variant: an unordered item leaves the counter of its level alone
list_item_no_reset(self, processed_text, list_type, level) ==
    LET cleaned_text == clean_list_text(processed_text, list_type)
        depth == resize(self.list_depth_stack, level, list_type)
        counters == resize(self.list_item_counters, level, 1)
        item_number == IF list_type = "ordered" THEN counters[level + 1] ELSE 0
        counters2 ==
            IF list_type = "ordered"
            THEN [counters EXCEPT ![level + 1] = @ + 1]
            ELSE IF level < Len(counters)
            THEN counters
            ELSE counters
        prefix == get_org_list_prefix(list_type, level,
                      IF list_type = "ordered" THEN item_number ELSE 1)
    IN [lines |-> << prefix \o cleaned_text >>,
        list_depth_stack |-> depth,
        list_item_counters |-> counters2]

\* the list branch, lines 696-720
list_item(self, processed_text, list_type, level) ==
    LET cleaned_text == clean_list_text(processed_text, list_type)
        depth == resize(self.list_depth_stack, level, list_type)
        counters == resize(self.list_item_counters, level, 1)
        item_number == IF list_type = "ordered" THEN counters[level + 1] ELSE 0
        counters2 ==
            IF list_type = "ordered"
            THEN [counters EXCEPT ![level + 1] = @ + 1]
            ELSE IF level < Len(counters)
            THEN [counters EXCEPT ![level + 1] = 1]
            ELSE counters
        prefix == get_org_list_prefix(list_type, level,
                      IF list_type = "ordered" THEN item_number ELSE 1)
    IN [lines |-> << prefix \o cleaned_text >>,
        list_depth_stack |-> depth,
        list_item_counters |-> counters2]

\* variant: prose leaves the list stacks alone
non_list_keep_lists(self, paragraph, processed_text) ==
    LET portions ==
            extract_bold_portions_with_footnotes(self.footnotes, paragraph)
        lines ==
            IF is_centered(paragraph)
            THEN << <<"*", " ">> \o strip(processed_text) >>
            ELSE IF has_bold_text(paragraph)
            THEN portion_lines(<<"*", "*", " ">>, portions.bold_text)
                 \o portion_lines(<<>>, portions.regular_text)
            ELSE << strip(processed_text) >>
    IN [lines |-> lines,
        list_depth_stack |-> self.list_depth_stack,
        list_item_counters |-> self.list_item_counters]

\* variant: bold runs are looked at before the alignment
non_list_bold_first(self, paragraph, processed_text) ==
    LET portions ==
            extract_bold_portions_with_footnotes(self.footnotes, paragraph)
        lines ==
            IF has_bold_text(paragraph)
            THEN portion_lines(<<"*", "*", " ">>, portions.bold_text)
                 \o portion_lines(<<>>, portions.regular_text)
            ELSE IF is_centered(paragraph)
            THEN << <<"*", " ">> \o strip(processed_text) >>
            ELSE << strip(processed_text) >>
    IN [lines |-> lines,
        list_depth_stack |-> <<>>,
        list_item_counters |-> <<>>]

\* variant: the regular portions are emitted before the bold ones
non_list_regular_first(self, paragraph, processed_text) ==
    LET portions ==
            extract_bold_portions_with_footnotes(self.footnotes, paragraph)
        lines ==
            IF is_centered(paragraph)
            THEN << <<"*", " ">> \o strip(processed_text) >>
            ELSE IF has_bold_text(paragraph)
            THEN portion_lines(<<>>, portions.regular_text)
                 \o portion_lines(<<"*", "*", " ">>, portions.bold_text)
            ELSE << strip(processed_text) >>
    IN [lines |-> lines,
        list_depth_stack |-> <<>>,
        list_item_counters |-> <<>>]

\* the non-list branch, lines 723-748
non_list(self, paragraph, processed_text) ==
    LET portions ==
            extract_bold_portions_with_footnotes(self.footnotes, paragraph)
        lines ==
            IF is_centered(paragraph)
            THEN << <<"*", " ">> \o strip(processed_text) >>
            ELSE IF has_bold_text(paragraph)
            THEN portion_lines(<<"*", "*", " ">>, portions.bold_text)
                 \o portion_lines(<<>>, portions.regular_text)
            ELSE << strip(processed_text) >>
    IN [lines |-> lines,
        list_depth_stack |-> <<>>,
        list_item_counters |-> <<>>]

\* variant: the list item is recognised before the text is tested
process_paragraph_list_first(self, paragraph) ==
    LET processed_text ==
            _process_text_with_footnotes(self.footnotes, paragraph)
        detected == detect_list_type_and_level(paragraph)
    IN IF detected.type # "none"
       THEN list_item(self, processed_text, detected.type, detected.level)
       ELSE IF strip(processed_text) = <<>>
       THEN [lines |-> <<>>,
             list_depth_stack |-> self.list_depth_stack,
             list_item_counters |-> self.list_item_counters]
       ELSE non_list(self, paragraph, processed_text)

\* variant: a blank paragraph empties the list stacks
process_paragraph_blank_clears(self, paragraph) ==
    LET processed_text ==
            _process_text_with_footnotes(self.footnotes, paragraph)
        detected == detect_list_type_and_level(paragraph)
    IN IF strip(processed_text) = <<>>
       THEN [lines |-> <<>>,
             list_depth_stack |-> <<>>,
             list_item_counters |-> <<>>]
       ELSE IF detected.type # "none"
       THEN list_item(self, processed_text, detected.type, detected.level)
       ELSE non_list(self, paragraph, processed_text)

process_paragraph(self, paragraph) ==
    LET processed_text ==
            _process_text_with_footnotes(self.footnotes, paragraph)
        detected == detect_list_type_and_level(paragraph)
    IN IF strip(processed_text) = <<>>
       THEN [lines |-> <<>>,
             list_depth_stack |-> self.list_depth_stack,
             list_item_counters |-> self.list_item_counters]
       ELSE IF detected.type # "none"
       THEN list_item(self, processed_text, detected.type, detected.level)
       ELSE non_list(self, paragraph, processed_text)

(***************************************************************************)
(* Footnote / endnote extractor.  A document is                            *)
(*   readable      whether Document(input_file) succeeds                   *)
(*   pkg_rels      note relationship types that                            *)
(*                 package.part_related_by finds                           *)
(*   rels          note relationship types of doc._part.rels, in the order *)
(*                 rels.items() yields them                                *)
(*   footnotes, endnotes   the two parts: [ok, notes]; ok is whether the   *)
(*                 XML parses, notes the note elements [id, text] in       *)
(*                 source order, id "" when the attribute is absent, text  *)
(*                 what _extract_text_from_footnote_element returns        *)
(***************************************************************************)
\* variant: a note with id "0" is recorded like any other
RECURSIVE notes_of_part_keep_zero(_)
notes_of_part_keep_zero(notes) ==
    IF notes = <<>> THEN <<>>
    ELSE LET note == Head(notes)
         IN (IF note.id # "" /\ strip(note.text) # <<>>
             THEN << [id |-> note.id, text |-> strip(note.text)] >>
             ELSE <<>>)
            \o notes_of_part_keep_zero(Tail(notes))

\* the loop over the note elements of one part
RECURSIVE notes_of_part(_)
notes_of_part(notes) ==
    IF notes = <<>> THEN <<>>
    ELSE LET note == Head(notes)
         IN (IF note.id # "" /\ note.id # "0" /\ strip(note.text) # <<>>
             THEN << [id |-> note.id, text |-> strip(note.text)] >>
             ELSE <<>>)
            \o notes_of_part(Tail(notes))

part_of(doc, reltype) ==
    IF reltype = "footnotes" THEN doc.footnotes ELSE doc.endnotes

\* Method 1, one part: a failed lookup or parse is caught for that part
method1_part(doc, reltype) ==
    IF reltype \notin doc.pkg_rels THEN <<>>
    ELSE IF ~part_of(doc, reltype).ok THEN <<>>
    ELSE notes_of_part(part_of(doc, reltype).notes)

\* Method 2: the loop over doc._part.rels; a parse failure ends the loop
RECURSIVE method2_rels(_, _)
method2_rels(doc, rels) ==
    IF rels = <<>> THEN <<>>
    ELSE IF ~part_of(doc, Head(rels)).ok THEN <<>>
    ELSE notes_of_part(part_of(doc, Head(rels)).notes)
         \o method2_rels(doc, Tail(rels))

\* the table after the call, given the table before it
extract_footnotes_from_xml(footnotes, doc) ==
    footnotes
    \o method1_part(doc, "footnotes")
    \o method1_part(doc, "endnotes")
    \o method2_rels(doc, doc.rels)

\* lines 811-816: what is appended to org_content after the paragraphs
RECURSIVE definition_lines(_, _)
definition_lines(footnotes, i) ==
    IF footnotes = <<>> THEN <<>>
    ELSE << fn_token(i) \o <<" ">> \o Head(footnotes).text >>
         \o definition_lines(Tail(footnotes), i + 1)

FootnotesHeading == <<"*", " ", "F", "o", "o", "t", "n", "o", "t", "e", "s">>

\* variant: the last record gets no definition line
trailer_skips_last(footnotes) ==
    IF footnotes # <<>>
    THEN << <<>>, FootnotesHeading >>
         \o definition_lines(SubSeq(footnotes, 1, Len(footnotes) - 1), 1)
    ELSE <<>>

\* variant: definitions numbered from 0
trailer_zero_based(footnotes) ==
    IF footnotes # <<>>
    THEN << <<>>, FootnotesHeading >> \o definition_lines(footnotes, 0)
    ELSE <<>>

\* variant: no empty entry ahead of the heading
trailer_no_separator(footnotes) ==
    IF footnotes # <<>>
    THEN << FootnotesHeading >> \o definition_lines(footnotes, 1)
    ELSE <<>>

trailer(footnotes) ==
    IF footnotes # <<>>
    THEN << <<>>, FootnotesHeading >> \o definition_lines(footnotes, 1)
    ELSE <<>>

(***************************************************************************)
(* docx2org.py: conflict resolution of the pandoc converter.  A file of    *)
(* docx_files is [exists, taken]: whether its output path exists, and the  *)
(* numbers n whose "stem (n).org" exists.  An output is 0 for the output   *)
(* path itself and n for "stem (n).org".                                   *)
(***************************************************************************)
\* the first counter from 1 whose name does not exist
_get_append_path(file) ==
    CHOOSE counter \in 1..(Cardinality(file.taken) + 1) :
        /\ counter \notin file.taken
        /\ \A c \in 1..(counter - 1) : c \in file.taken

\* prepare_tasks, lines 187-190: queue the file or count it as skipped
queue_or_skip(p, final_output, should_process) ==
    [p EXCEPT !.tasks = IF should_process
                        THEN Append(@, [input |-> p.next,
                                        output |-> final_output])
                        ELSE @,
              !.skip_count = IF should_process THEN @ ELSE @ + 1,
              !.next = @ + 1,
              !.pc = "loop"]

\* resolve_conflict, lines 118-137: one pass of the prompt loop
answer_prompt(p, typed) ==
    LET choice == lower(strip(typed))
        file == p.docx_files[p.next]
        q == [p EXCEPT !.answers = Append(@, [file |-> p.next,
                                              typed |-> typed])]
    IN IF choice = <<"o">> THEN queue_or_skip(q, 0, TRUE)
       ELSE IF choice = <<"o">>
       THEN queue_or_skip([q EXCEPT !.conflict_mode = "OVERWRITE_ALL"],
                          0, TRUE)
       ELSE IF choice = <<"s">> THEN queue_or_skip(q, 0, FALSE)
       ELSE IF choice = <<"s">>
       THEN queue_or_skip([q EXCEPT !.conflict_mode = "SKIP_ALL"], 0, FALSE)
       ELSE IF choice = <<"a">>
       THEN queue_or_skip(q, _get_append_path(file), TRUE)
       ELSE IF choice = <<"a">>
       THEN queue_or_skip([q EXCEPT !.conflict_mode = "APPEND_ALL"],
                          _get_append_path(file), TRUE)
       ELSE q

(***************************************************************************)
(* Folder modes: discovery of the .docx files and their output paths.      *)
(***************************************************************************)
DotDocx == <<".", "d", "o", "c", "x">>

DotOrg == <<".", "o", "r", "g">>

\* os.walk over one directory: the files that pass the filter, joined to root
find_docx_files_recursive(root, files) ==
    LET docx == SelectSeq(files, LAMBDA file : endswith(lower(file), DotDocx))
    IN [i \in 1..Len(docx) |-> root \o docx[i]]

\* (docx_file, docx_file.replace('.docx', '.org')) for every file
pairs_of(docx_files) ==
    [i \in 1..Len(docx_files) |->
        << docx_files[i], replace(docx_files[i], DotDocx, DotOrg) >>]

(***************************************************************************)
(* Inputs offered to the converter.                                        *)
(***************************************************************************)
MaxDocx == 2         \* files handed to prepare_tasks, SpecConflict
MaxAnswers == 3      \* answers typed at the conflict prompts of one run
MaxFiles == 2        \* files of the scanned folder, SpecPairs
NumTasks == 2        \* documents of a batch
MaxRuns == 3         \* runs per paragraph, SpecPara
MaxNotes == 2        \* note elements of the footnote part, Spec

Run(text, bold, refs) == [text |-> text, bold |-> bold, refs |-> refs]

FnRef(id) == [kind |-> "footnoteReference", id |-> id]
EnRef(id) == [kind |-> "endnoteReference", id |-> id]

NoNumPr == [present |-> FALSE, ilvl |-> -1, numId |-> FALSE]

Style(name, id) == [name |-> name, id |-> id]

Para(style, numPr, alignment, runs) ==
    [style_name |-> style.name, style_id |-> style.id, style_ilvl |-> -1,
     numPr |-> numPr, alignment |-> alignment, runs |-> runs]

Normal == Style(<<"normal">>, <<"normal">>)

\* paragraphs of SpecList: ordered items at every level and unordered items
\* at the outermost and the deepest level through numbering properties, an
\* item recognised by its text marker, and prose
ListParas ==
    { Para(Normal, [present |-> TRUE, ilvl |-> l, numId |-> TRUE], "left",
           << Run(<<"a">>, FALSE, <<>>) >>) : l \in 0..MaxLevel }
    \cup
    { Para(Normal, [present |-> TRUE, ilvl |-> l, numId |-> FALSE], "left",
           << Run(<<"a">>, FALSE, <<>>) >>) : l \in {0, MaxLevel} }
    \cup
    { Para(Normal, NoNumPr, "left",
           << Run(<<"1", ".", " ", "b">>, FALSE, <<>>) >>),
      Para(Normal, NoNumPr, "left", << Run(<<"p">>, FALSE, <<>>) >>) }

\* runs of SpecPara
ParaRuns ==
    { Run(<<"a">>, FALSE, <<>>),
      Run(<<"b">>, TRUE, <<>>),
      Run(<<" ">>, FALSE, <<>>),
      Run(<<>>, FALSE, << FnRef("7") >>),
      Run(<<"c">>, TRUE, << FnRef("2") >>),
      Run(<<>>, FALSE, << EnRef("2") >>) }

RunSeqs(n) == UNION { [1..k -> ParaRuns] : k \in 1..n }

ParaStyles ==
    { Normal,
      Style(<<"heading", "2">>, <<"heading2">>),
      Style(<<"custom">>, <<"heading3">>),
      Style(<<"list", "bullet">>, <<"listbullet">>) }

ClassParas ==
    { Para(st, np, al, rs) :
        st \in ParaStyles,
        np \in { NoNumPr, [present |-> TRUE, ilvl |-> 1, numId |-> TRUE] },
        al \in { "left", "center" },
        rs \in RunSeqs(MaxRuns) }

\* paragraphs of Spec and SpecBatch
NoteParas ==
    { Para(Normal, NoNumPr, "left", << Run(<<"a">>, FALSE, <<>>) >>),
      Para(Normal, NoNumPr, "left",
           << Run(<<"a">>, FALSE, << FnRef("7") >>),
              Run(<<"b">>, TRUE, << FnRef("2") >>) >>),
      Para(Normal, NoNumPr, "center",
           << Run(<<"c">>, FALSE, << FnRef("2"), FnRef("9") >>) >>),
      Para(Normal, [present |-> TRUE, ilvl |-> 0, numId |-> TRUE], "left",
           << Run(<<"d">>, FALSE, << FnRef("7") >>) >>) }

MaxNestParas == 4    \* paragraphs per document, SpecNest
MaxMixParas == 3     \* paragraphs per document, SpecMix

Ordered(level) == [present |-> TRUE, ilvl |-> level, numId |-> TRUE]

\* paragraphs of SpecMix: ordered items at two levels, paragraphs without
\* text of their own (one with a footnote reference, one bold, centred and
\* numbered at once), prose, and paragraphs whose runs carry several
\* references each
MixParas ==
    { Para(Normal, Ordered(0), "left", << Run(<<"a">>, FALSE, <<>>) >>),
      Para(Normal, Ordered(1), "left", << Run(<<"a">>, FALSE, <<>>) >>),
      Para(Normal, NoNumPr, "left",
           << Run(<<" ">>, FALSE, <<>>), Run(<<>>, FALSE, << FnRef("7") >>) >>),
      Para(Style(<<"list", "number">>, <<"listnumber">>), Ordered(0), "center",
           << Run(<<" ">>, TRUE, <<>>), Run(<<>>, TRUE, << FnRef("9") >>) >>),
      Para(Normal, NoNumPr, "left", << Run(<<"p">>, FALSE, <<>>) >>),
      Para(Normal, NoNumPr, "left",
           << Run(<<"c">>, TRUE, << FnRef("7"), FnRef("2") >>),
              Run(<<"a">>, FALSE, << FnRef("2") >>) >>),
      Para(Normal, NoNumPr, "left",
           << Run(<<"a">>, FALSE, << FnRef("2"), FnRef("9"), FnRef("7") >>),
              Run(<<>>, FALSE, <<>>),
              Run(<<"b">>, FALSE, << FnRef("7") >>) >>) }

Note(id, text) == [id |-> id, text |-> text]

NoteElements ==
    { Note("0", <<"s">>), Note("7", <<"z">>), Note("2", <<"y", " ">>),
      Note("1", <<" ">>) }

NoteSeqs(n) == UNION { [1..k -> NoteElements] : k \in 0..n }

Part(ok, notes) == [ok |-> ok, notes |-> notes]

Doc(readable, pkg_rels, rels, footnotes, endnotes) ==
    [readable |-> readable, pkg_rels |-> pkg_rels, rels |-> rels,
     footnotes |-> footnotes, endnotes |-> endnotes]

NoDoc == Doc(FALSE, {}, <<>>, Part(FALSE, <<>>), Part(FALSE, <<>>))

\* a document without notes
PlainDoc == Doc(TRUE, {}, <<>>, Part(FALSE, <<>>), Part(FALSE, <<>>))

\* documents of Spec
NoteDocs ==
    { Doc(TRUE, pk, rl, Part(TRUE, fs), Part(TRUE, es)) :
        pk \in { {}, {"footnotes", "endnotes"} },
        rl \in { <<>>, <<"footnotes", "endnotes">>,
                 <<"endnotes", "footnotes">> },
        fs \in NoteSeqs(MaxNotes),
        es \in { <<>>, << Note("0", <<"t">>), Note("2", <<"e">>) >> } }
    \cup
    { Doc(TRUE, {}, <<"footnotes", "endnotes">>, Part(FALSE, <<>>),
          Part(TRUE, << Note("2", <<"e">>) >>)),
      NoDoc }

\* documents of SpecPara, SpecList and SpecBatch
FewDocs ==
    { PlainDoc,
      Doc(TRUE, {}, <<"footnotes", "endnotes">>,
          Part(TRUE, << Note("0", <<"s">>), Note("7", <<"x">>) >>),
          Part(TRUE, << Note("2", <<"e">>) >>)),
      NoDoc }

(***************************************************************************)
(* State.                                                                  *)
(*   entry   the entry point taken: "single" (one file on the command      *)
(*           line), "run" (the thread pool of run()), "folder" (the        *)
(*           thread pool of the command-line folder mode) or "sequential"  *)
(*           (the loops that convert one document after the other);       *)
(*           "docx2org" (prepare_tasks of the pandoc converter), "argv"    *)
(*           (a folder on the command line) or "input" (a folder typed at  *)
(*           the prompt of get_user_input)                                 *)
(*   conv    the converter objects; 0 is the module-level converter, t the *)
(*           one convert_single_file_static creates for task t             *)
(*   task    one call of convert_docx_to_org per document: pc, self (the   *)
(*           converter it runs on), doc, org_content, result, and trace,   *)
(*           the calls of process_paragraph made so far (paragraph, lines  *)
(*           returned, list state before and after)                        *)
(*   output  the output file of each task                                  *)
(*   pandoc  the converter of docx2org.py inside prepare_tasks: pc,        *)
(*           conflict_mode, docx_files (for each file whether its output   *)
(*           path exists and which "(n)" names exist), next (the file the  *)
(*           loop is at), tasks, skip_count, and answers, what was typed   *)
(*           at each conflict prompt                                       *)
(*   cli     the folder modes that pair every discovered file with an      *)
(*           output path: pc, listing (the file names os.walk yields),     *)
(*           docx_files, file_pairs, converted (the pairs handled) and     *)
(*           disk, what each path holds                                    *)
(***************************************************************************)
VARIABLES entry, conv, task, output, pandoc, cli

vars == <<entry, conv, task, output, pandoc, cli>>

TaskIds == 1..NumTasks
ConvIds == 0..NumTasks

\* __init__
NewConverter ==
    [footnotes |-> <<>>, list_depth_stack |-> <<>>, list_item_counters |-> <<>>]

IdleTask ==
    [pc |-> "idle", self |-> 0, doc |-> NoDoc, org_content |-> <<>>,
     trace |-> <<>>, result |-> "none"]

NoFile == [written |-> FALSE, content |-> <<>>]

\* an output file that exists before the conversion
OldFile == [written |-> TRUE, content |-> <<"o">>]

\* DocxToOrgConverter.__init__ of docx2org.py, before prepare_tasks
NewPandoc ==
    [pc |-> "idle", conflict_mode |-> "None", docx_files |-> <<>>,
     next |-> 1, tasks |-> <<>>, skip_count |-> 0, answers |-> <<>>]

\* no folder scanned yet
IdleCli ==
    [pc |-> "idle", listing |-> <<>>, docx_files |-> <<>>,
     file_pairs |-> <<>>, converted |-> {}, disk |-> <<>>]

InitWith(entries) ==
    /\ entry \in entries
    /\ conv = [c \in ConvIds |-> NewConverter]
    /\ task = [t \in TaskIds |-> IdleTask]
    /\ output = [t \in TaskIds |-> NoFile]
    /\ pandoc = NewPandoc
    /\ cli = IdleCli

list_state(c) ==
    [list_depth_stack |-> c.list_depth_stack,
     list_item_counters |-> c.list_item_counters]

\* __main__, single file: converter.convert_docx_to_org(input_path, ...)
MainSingleFile ==
    /\ entry = "single"
    /\ task[1].pc = "idle"
    /\ task' = [task EXCEPT ![1].pc = "start", ![1].self = 0]
    /\ UNCHANGED <<entry, conv, output, pandoc, cli>>

\* run(): executor.submit(convert_single_file_static, ...), which creates
\* a converter of its own
RunSubmit(t) ==
    /\ entry = "run"
    /\ task[t].pc = "idle"
    /\ conv' = [conv EXCEPT ![t] = NewConverter]
    /\ task' = [task EXCEPT ![t].pc = "start", ![t].self = t]
    /\ UNCHANGED <<entry, output, pandoc, cli>>

\* __main__, folder: executor.submit(converter.convert_single_file, ...)
FolderSubmit(t) ==
    /\ entry = "folder"
    /\ task[t].pc = "idle"
    /\ task' = [task EXCEPT ![t].pc = "start", ![t].self = 0]
    /\ UNCHANGED <<entry, conv, output, pandoc, cli>>

\* run() and __main__ without a pool: for ... in file_pairs:
\* self.convert_docx_to_org(...), one document after the other
SequentialNext(t) ==
    /\ entry = "sequential"
    /\ task[t].pc = "idle"
    /\ \A u \in 1..(t - 1) : task[u].pc \in {"done", "failed"}
    /\ task' = [task EXCEPT ![t].pc = "start", ![t].self = 0]
    /\ UNCHANGED <<entry, conv, output, pandoc, cli>>

\* variant: the footnote table survives from the previous document
Reset_keep_footnotes(t) ==
    /\ task[t].pc = "start"
    /\ conv' = [conv EXCEPT ![task[t].self].list_depth_stack = <<>>,
                            ![task[t].self].list_item_counters = <<>>]
    /\ task' = [task EXCEPT ![t].pc = "load"]
    /\ UNCHANGED <<entry, output, pandoc, cli>>

\* "Reset all data"
Reset(t) ==
    /\ task[t].pc = "start"
    /\ conv' = [conv EXCEPT ![task[t].self] = NewConverter]
    /\ task' = [task EXCEPT ![t].pc = "load"]
    /\ UNCHANGED <<entry, output, pandoc, cli>>

\* variant: the output file is opened for writing before the document loads
Load_truncates_output(t, docs) ==
    /\ task[t].pc = "load"
    /\ \E d \in docs :
          task' = [task EXCEPT ![t].doc = d,
                               ![t].pc = IF d.readable THEN "extract"
                                         ELSE "failed",
                               ![t].result = IF d.readable THEN "none"
                                             ELSE "False"]
    /\ output' = [output EXCEPT ![t] = [written |-> TRUE, content |-> <<>>]]
    /\ UNCHANGED <<entry, conv, pandoc, cli>>

\* doc = Document(input_file); an unreadable container raises
Load(t, docs) ==
    /\ task[t].pc = "load"
    /\ \E d \in docs :
          task' = [task EXCEPT ![t].doc = d,
                               ![t].pc = IF d.readable THEN "extract"
                                         ELSE "failed",
                               ![t].result = IF d.readable THEN "none"
                                             ELSE "False"]
    /\ UNCHANGED <<entry, conv, output, pandoc, cli>>

\* self.extract_footnotes_from_xml(doc); org_content = []
Extract(t) ==
    /\ task[t].pc = "extract"
    /\ conv' = [conv EXCEPT ![task[t].self].footnotes =
                   extract_footnotes_from_xml(@, task[t].doc)]
    /\ task' = [task EXCEPT ![t].pc = "paragraphs", ![t].org_content = <<>>]
    /\ UNCHANGED <<entry, output, pandoc, cli>>

\* one iteration of "for paragraph in doc.paragraphs"
ProcessParagraph(t, paras, maxp) ==
    /\ task[t].pc = "paragraphs"
    /\ Len(task[t].trace) < maxp
    /\ \E paragraph \in paras :
          LET self == conv[task[t].self]
              r == process_paragraph(self, paragraph)
          IN /\ conv' = [conv EXCEPT
                   ![task[t].self].list_depth_stack = r.list_depth_stack,
                   ![task[t].self].list_item_counters = r.list_item_counters]
             /\ task' = [task EXCEPT
                   ![t].org_content = @ \o r.lines,
                   ![t].trace = Append(@,
                       [paragraph |-> paragraph, lines |-> r.lines,
                        footnotes |-> self.footnotes,
                        refs |-> find_footnote_references_in_paragraph(
                                     self.footnotes, paragraph),
                        before |-> list_state(self),
                        after |-> list_state(r)])]
    /\ UNCHANGED <<entry, output, pandoc, cli>>

\* an exception raised while a paragraph is processed: caught by
\* "except Exception", the local org_content is dropped, return False
ParagraphRaises(t) ==
    /\ task[t].pc = "paragraphs"
    /\ task' = [task EXCEPT ![t].pc = "failed", ![t].result = "False",
                            ![t].org_content = <<>>]
    /\ UNCHANGED <<entry, conv, output, pandoc, cli>>

\* "Add footnotes at the end if any"
Trailer(t) ==
    /\ task[t].pc = "paragraphs"
    /\ task' = [task EXCEPT
          ![t].org_content = @ \o trailer(conv[task[t].self].footnotes),
          ![t].pc = "write"]
    /\ UNCHANGED <<entry, conv, output, pandoc, cli>>

\* f.write('\n\n'.join(org_content)); return True
Write(t) ==
    /\ task[t].pc = "write"
    /\ output' = [output EXCEPT ![t] =
          [written |-> TRUE,
           content |-> join_sep(<<"\n", "\n">>, task[t].org_content)]]
    /\ task' = [task EXCEPT ![t].pc = "done", ![t].result = "True"]
    /\ UNCHANGED <<entry, conv, pandoc, cli>>

Convert(t, docs, paras, maxp) ==
    \/ Reset(t)
    \/ Load(t, docs)
    \/ Extract(t)
    \/ ProcessParagraph(t, paras, maxp)
    \/ ParagraphRaises(t)
    \/ Trailer(t)
    \/ Write(t)

\* one document with notes, few paragraph shapes
Init == InitWith({"single"})
Next == MainSingleFile \/ Convert(1, NoteDocs, NoteParas, MaxParas)
Spec == Init /\ [][Next]_vars

\* one paragraph of every shape
InitPara == InitWith({"single"})
NextPara == MainSingleFile \/ Convert(1, FewDocs, ClassParas, 1)
SpecPara == InitPara /\ [][NextPara]_vars

\* a document of list items and prose
InitList == InitWith({"single"})
NextList == MainSingleFile \/ Convert(1, {PlainDoc, NoDoc}, ListParas, MaxListParas)
SpecList == InitList /\ [][NextList]_vars

\* the two thread pools
InitBatch == InitWith({"run", "folder"})
NextBatch ==
    \E t \in TaskIds :
        \/ RunSubmit(t)
        \/ FolderSubmit(t)
        \/ Convert(t, FewDocs, NoteParas, 1)
SpecBatch == InitBatch /\ [][NextBatch]_vars

\* list items, blank paragraphs, prose and runs with several references
\* nested list items, SpecNest
NestParas ==
    { Para(Normal, Ordered(l), "left", << Run(<<"a">>, FALSE, <<>>) >>) :
        l \in 0..MaxLevel }
    \cup
    { Para(Normal, [present |-> TRUE, ilvl |-> 1, numId |-> FALSE], "left",
           << Run(<<"a">>, FALSE, <<>>) >>),
      Para(Normal, NoNumPr, "left", << Run(<<"p">>, FALSE, <<>>) >>) }

InitNest == InitWith({"single"})
NextNest ==
    MainSingleFile \/ Convert(1, {PlainDoc, NoDoc}, NestParas, MaxNestParas)
SpecNest == InitNest /\ [][NextNest]_vars

InitMix == InitWith({"single"})
NextMix == MainSingleFile \/ Convert(1, FewDocs, MixParas, MaxMixParas)
SpecMix == InitMix /\ [][NextMix]_vars

\* one converter, one document after the other; an output file may exist
InitSeq ==
    /\ entry = "sequential"
    /\ conv = [c \in ConvIds |-> NewConverter]
    /\ task = [t \in TaskIds |-> IdleTask]
    /\ output \in [TaskIds -> {NoFile, OldFile}]
    /\ pandoc = NewPandoc
    /\ cli = IdleCli
NextSeq ==
    \E t \in TaskIds :
        \/ SequentialNext(t)
        \/ Convert(t, FewDocs, NoteParas, 1)
SpecSeq == InitSeq /\ [][NextSeq]_vars

\* the files prepare_tasks is called with
FileShapes ==
    { [exists |-> FALSE, taken |-> {}], [exists |-> TRUE, taken |-> {}],
      [exists |-> TRUE, taken |-> {1}] }

DocxFiles == UNION { [1..k -> FileShapes] : k \in 1..MaxDocx }

\* what the user may type at the conflict prompt
Typed ==
    { <<"o">>, <<"O">>, <<"s">>, <<"S">>, <<"a">>, <<"A", " ">>, <<"x">> }

\* prepare_tasks is entered with the sorted list of files
PrepareTasks ==
    /\ entry = "docx2org"
    /\ pandoc.pc = "idle"
    /\ \E files \in DocxFiles :
          pandoc' = [pandoc EXCEPT !.docx_files = files, !.pc = "loop"]
    /\ UNCHANGED <<entry, conv, task, output, cli>>

\* one file of the loop: resolve_conflict up to the prompt, lines 96-116
ResolveConflict ==
    /\ pandoc.pc = "loop"
    /\ pandoc.next <= Len(pandoc.docx_files)
    /\ LET file == pandoc.docx_files[pandoc.next]
       IN pandoc' =
             IF ~file.exists THEN queue_or_skip(pandoc, 0, TRUE)
             ELSE IF pandoc.conflict_mode = "OVERWRITE_ALL"
             THEN queue_or_skip(pandoc, 0, TRUE)
             ELSE IF pandoc.conflict_mode = "SKIP_ALL"
             THEN queue_or_skip(pandoc, 0, FALSE)
             ELSE IF pandoc.conflict_mode = "APPEND_ALL"
             THEN queue_or_skip(pandoc, _get_append_path(file), TRUE)
             ELSE [pandoc EXCEPT !.pc = "prompt"]
    /\ UNCHANGED <<entry, conv, task, output, cli>>

\* the user types an answer at the prompt
Choice ==
    /\ pandoc.pc = "prompt"
    /\ Len(pandoc.answers) < MaxAnswers
    /\ \E typed \in Typed : pandoc' = answer_prompt(pandoc, typed)
    /\ UNCHANGED <<entry, conv, task, output, cli>>

\* the file names of the scanned folder
Names ==
    { <<"a", ".", "d", "o", "c", "x">>, <<"b", ".", "D", "O", "C", "X">>,
      <<"c", ".", "D", "o", "c", "x">>, <<"n", ".", "t", "x", "t">> }

Root == <<"d", "/">>

Listings ==
    { files \in UNION { [1..k -> Names] : k \in 0..MaxFiles } :
        \A i, j \in 1..Len(files) : files[i] = files[j] => i = j }

\* what the user may type when asked to confirm the folder
Confirms == { <<"y">>, <<"Y", "e", "s", " ">>, <<"n">>, <<>> }

\* the folder is scanned
FindDocxFiles ==
    /\ entry \in {"argv", "input"}
    /\ cli.pc = "idle"
    /\ \E files \in Listings :
          LET docx_files == find_docx_files_recursive(Root, files)
          IN cli' = [cli EXCEPT
                !.listing = files,
                !.docx_files = docx_files,
                !.disk = [path \in { Root \o files[i] : i \in 1..Len(files) }
                            |-> "source"],
                !.pc = IF docx_files = <<>> THEN "none" ELSE "found"]
    /\ UNCHANGED <<entry, conv, task, output, pandoc>>

\* command line, folder: the output path of every file found
MainFolderPairs ==
    /\ entry = "argv"
    /\ cli.pc = "found"
    /\ cli' = [cli EXCEPT !.file_pairs = pairs_of(cli.docx_files),
                          !.pc = "paired"]
    /\ UNCHANGED <<entry, conv, task, output, pandoc>>

\* get_user_input, folder: the pairs are queued once the user confirms
UserInputFolderPairs ==
    /\ entry = "input"
    /\ cli.pc = "found"
    /\ \E typed \in Confirms :
          LET confirm == lower(strip(typed))
          IN cli' = IF confirm \in { <<"y">>, <<"y", "e", "s">> }
                    THEN [cli EXCEPT !.file_pairs = pairs_of(cli.docx_files),
                                     !.pc = "queued"]
                    ELSE [cli EXCEPT !.pc = "declined"]
    /\ UNCHANGED <<entry, conv, task, output, pandoc>>

\* command line, folder: one pair is converted with check_conflicts=False;
\* a document that opens has its org text written to the output path
ConvertPair ==
    /\ entry = "argv"
    /\ cli.pc = "paired"
    /\ \E k \in (1..Len(cli.file_pairs)) \ cli.converted :
          \E opens \in BOOLEAN :
             /\ opens => cli.disk[cli.file_pairs[k][1]] = "source"
             /\ cli' = [cli EXCEPT
                   !.converted = @ \cup {k},
                   !.disk = IF opens
                            THEN (cli.file_pairs[k][2] :> "org") @@ @
                            ELSE @]
    /\ UNCHANGED <<entry, conv, task, output, pandoc>>

\* the pandoc converter preparing its tasks
InitConflict == InitWith({"docx2org"})
NextConflict == PrepareTasks \/ ResolveConflict \/ Choice
SpecConflict == InitConflict /\ [][NextConflict]_vars

\* a folder given on the command line or typed at the prompt
InitPairs == InitWith({"argv", "input"})
NextPairs ==
    FindDocxFiles \/ MainFolderPairs \/ UserInputFolderPairs \/ ConvertPair
SpecPairs == InitPairs /\ [][NextPairs]_vars

(***************************************************************************)
(* Vocabulary of the properties.                                           *)
(***************************************************************************)
StartsWith(s, pre) == Len(s) >= Len(pre) /\ SubSeq(s, 1, Len(pre)) = pre

EndsWith(s, suf) ==
    Len(s) >= Len(suf) /\ SubSeq(s, Len(s) - Len(suf) + 1, Len(s)) = suf

Contains(s, sub) ==
    \E i \in 1..(Len(s) - Len(sub) + 1) : SubSeq(s, i, i + Len(sub) - 1) = sub

FnOpen == <<"[", "f", "n", ":">>

Spaces(n) == [i \in 1..n |-> " "]

Stars(n) == [i \in 1..n |-> "*"]

\* the calls of process_paragraph of the single conversion
Calls == task[1].trace

Finished(t) == task[t].pc = "done"

InFlight(t) == task[t].pc \in {"start", "load", "extract", "paragraphs", "write"}

\* the text process_paragraph works on in call e
ProcessedText(e) == _process_text_with_footnotes(e.footnotes, e.paragraph)

Blank(e) == strip(ProcessedText(e)) = <<>>

Detected(e) == detect_list_type_and_level(e.paragraph)

IsListItem(e) == ~Blank(e) /\ Detected(e).type # "none"

IsItem(e, kind, level) ==
    IsListItem(e) /\ Detected(e).type = kind /\ Detected(e).level = level

IsProse(e) == ~Blank(e) /\ Detected(e).type = "none"

NumberedLine(level, k, text) ==
    Spaces(2 * level) \o str_int(k) \o <<".", " ">> \o text

CleanedText(e) == clean_list_text(ProcessedText(e), Detected(e).type)

(***************************************************************************)
(* Properties of Spec: the footnote trailer.                               *)
(***************************************************************************)
Table(t) == conv[task[t].self].footnotes

DefinitionLine(i, text) ==
    <<"[", "f", "n", ":">> \o str_int(i) \o <<"]", " ">> \o text

\* C1: when the table has K >= 1 records, the output ends with the line
\* "* Footnotes" followed by exactly K definition lines "[fn:1] ..." to
\* "[fn:K] ...", numbered by position in the table whatever the source ids.
C1_TrailerNumbering ==
    \A t \in TaskIds :
        (Finished(t) /\ Len(Table(t)) >= 1) =>
            LET K == Len(Table(t))
                oc == task[t].org_content
                defs == [i \in 1..K |-> DefinitionLine(i, Table(t)[i].text)]
            IN /\ Len(oc) >= K + 1
               /\ oc[Len(oc) - K] = FootnotesHeading
               /\ SubSeq(oc, Len(oc) - K + 1, Len(oc)) = defs
               /\ EndsWith(output[t].content,
                      <<"\n", "\n">>
                      \o join_sep(<<"\n", "\n">>, <<FootnotesHeading>> \o defs))

\* C1 witness: a finished conversion whose table starts with source id 7
\* and holds the same source id twice
C1_Witness ==
    /\ Finished(1)
    /\ Len(Table(1)) >= 2
    /\ Table(1)[1].id = "7"
    /\ Table(1)[2].id = "7"

\* C10: a document from which no note is extracted gets no "* Footnotes"
\* line and no "[fn:" token, whatever its paragraphs are.
C10_NoNotesNoTokens ==
    \A t \in TaskIds :
        (task[t].pc \in {"write", "done"} /\ Table(t) = <<>>) =>
            /\ \A i \in 1..Len(task[t].org_content) :
                  /\ task[t].org_content[i] # FootnotesHeading
                  /\ ~Contains(task[t].org_content[i], FnOpen)
            /\ ~Contains(output[t].content, FnOpen)
            /\ ~Contains(output[t].content, FootnotesHeading)

\* C10 witness: a written document with an empty table although a
\* paragraph carried a footnote reference
C10_Witness ==
    /\ Finished(1)
    /\ Table(1) = <<>>
    /\ output[1].content # <<>>
    /\ \E i \in 1..Len(Calls) :
          \E r \in 1..Len(Calls[i].paragraph.runs) :
             Calls[i].paragraph.runs[r].refs # <<>>

\* the converter as call e found it
SelfBefore(e) ==
    [footnotes |-> e.footnotes,
     list_depth_stack |-> e.before.list_depth_stack,
     list_item_counters |-> e.before.list_item_counters]

\* paragraph p without the q-th reference element of its r-th run
WithoutRef(p, r, q) ==
    [p EXCEPT !.runs[r].refs =
        SubSeq(@, 1, q - 1) \o SubSeq(@, q + 1, Len(@))]

InTable(footnotes, id) == \E n \in 1..Len(footnotes) : footnotes[n].id = id

\* the footnote references of the paragraph of call e, as (run, position)
FootnoteRefs(e) ==
    { rq \in (1..Len(e.paragraph.runs)) \X (1..2) :
        /\ rq[2] <= Len(e.paragraph.runs[rq[1]].refs)
        /\ e.paragraph.runs[rq[1]].refs[rq[2]].kind = "footnoteReference" }

RefId(e, rq) == e.paragraph.runs[rq[1]].refs[rq[2]].id

\* C11: a footnote reference whose id is in no record of the table gives no
\* marker: the markers are as many as the references that do match, and
\* markers, lines and list state of the paragraph are those of the same
\* paragraph without that reference.
C11_MissDropped ==
    \A i \in 1..Len(Calls) :
        LET e == Calls[i]
        IN /\ Len(e.refs) =
                Cardinality({ rq \in FootnoteRefs(e) :
                                InTable(e.footnotes, RefId(e, rq)) })
           /\ \A rq \in FootnoteRefs(e) :
                 ~InTable(e.footnotes, RefId(e, rq)) =>
                    LET p == WithoutRef(e.paragraph, rq[1], rq[2])
                        r == process_paragraph(SelfBefore(e), p)
                    IN /\ e.refs = find_footnote_references_in_paragraph(
                                       e.footnotes, p)
                       /\ e.lines = r.lines
                       /\ e.after = list_state(r)

\* C11 witness: a run refers to ids 2 and 9, the table holds 2 and not 9,
\* and the line carries the one token of id 2
C11_Witness ==
    \E i \in 1..Len(Calls) :
        /\ Calls[i].paragraph.runs[1].refs = << FnRef("2"), FnRef("9") >>
        /\ InTable(Calls[i].footnotes, "2")
        /\ Len(Calls[i].refs) = 1
        /\ Len(Calls[i].lines) = 1
        /\ Contains(Calls[i].lines[1], FnOpen)

\* the positions of the records with the id
Positions(footnotes, id) == { n \in 1..Len(footnotes) : footnotes[n].id = id }

Smallest(S) == CHOOSE n \in S : \A m \in S : n <= m

\* C24: a footnote reference whose id is in the table gets the marker of its
\* run with the number of the smallest position holding that id, whatever
\* the number of records sharing the id; every marker is such a number.
C24_FirstPosition ==
    \A i \in 1..Len(Calls) :
        LET e == Calls[i]
        IN /\ \A rq \in FootnoteRefs(e) :
                 InTable(e.footnotes, RefId(e, rq)) =>
                    \E m \in 1..Len(e.refs) :
                       e.refs[m] =
                         << rq[1] - 1,
                            fn_token(Smallest(Positions(e.footnotes,
                                                        RefId(e, rq)))) >>
           /\ \A m \in 1..Len(e.refs) :
                 \E rq \in FootnoteRefs(e) :
                    /\ rq[1] - 1 = e.refs[m][1]
                    /\ InTable(e.footnotes, RefId(e, rq))
                    /\ e.refs[m][2] =
                         fn_token(Smallest(Positions(e.footnotes,
                                                     RefId(e, rq))))

\* C24 witness: id 7 is held by the second record and by a later one, and
\* the reference to 7 is numbered 2
C24_Witness ==
    \E i \in 1..Len(Calls) :
        /\ Cardinality(Positions(Calls[i].footnotes, "7")) > 1
        /\ Smallest(Positions(Calls[i].footnotes, "7")) = 2
        /\ Calls[i].paragraph.runs[1].refs = << FnRef("7") >>
        /\ Calls[i].refs[1] = << 0, fn_token(2) >>

\* length of the "[fn:N]" token text starts with, 0 when it starts with none
TokenAt(text) ==
    IF ~StartsWith(text, FnOpen) THEN 0
    ELSE LET rest == SubSeq(text, 5, Len(text))
             n == span(Digits, rest)
         IN IF n >= 1 /\ Len(rest) > n /\ rest[n + 1] = "]" THEN n + 5 ELSE 0

\* the token "[fn:N]" as it stands in a line
Token(N) == FnOpen \o str_int(N) \o <<"]">>

\* C27: in a converted document every "[fn:N]" token of a body line has
\* 1 <= N <= K, K the length of the table, and the lines after the
\* "* Footnotes" heading hold the definition line of record N.
C27_TokensDefined ==
    \A t \in TaskIds :
        (Finished(t) /\ task[t].result = "True") =>
            LET K == Len(Table(t))
                oc == task[t].org_content
            IN \A i \in 1..Len(task[t].trace) :
                  \A a \in 1..Len(task[t].trace[i].lines) :
                     LET line == task[t].trace[i].lines[a]
                     IN /\ \E b \in 1..(Len(oc) - Len(trailer(Table(t)))) :
                              oc[b] = line
                        /\ \A k \in 1..Len(line) :
                              LET n == TokenAt(SubSeq(line, k, Len(line)))
                              IN n > 0 =>
                                 \E N \in 1..K :
                                    /\ SubSeq(line, k, k + n - 1) = Token(N)
                                    /\ \E j \in (Len(oc) - K + 1)..Len(oc) :
                                          oc[j] =
                                            DefinitionLine(N, Table(t)[N].text)

\* C27 witness: a converted document with a body line holding "[fn:2]",
\* the highest number of its table of two records
C27_Witness ==
    /\ Finished(1)
    /\ task[1].result = "True"
    /\ Len(Table(1)) = 2
    /\ \E i \in 1..Len(task[1].trace) :
          \E a \in 1..Len(task[1].trace[i].lines) :
             Contains(task[1].trace[i].lines[a], Token(2))

Extracted(t) == task[t].pc \in {"paragraphs", "write", "done"}

Range(f) == { f[i] : i \in DOMAIN f }

\* the note elements of a part with an id other than "0"
SourceNotes(part) ==
    IF part.ok
    THEN Cardinality({ n \in 1..Len(part.notes) : part.notes[n].id # "0" })
    ELSE 0

\* C28: the table of a conversion holds at most one record for each note
\* element of the footnote and endnote parts with an id other than "0".
C28_OneRecordPerNote ==
    \A t \in TaskIds :
        Extracted(t) =>
            Len(Table(t)) <= SourceNotes(task[t].doc.footnotes)
                             + SourceNotes(task[t].doc.endnotes)

\* record rec is what the extractor makes of a note of the given part only
FromFootnotePart(doc, rec) ==
    /\ rec \in Range(notes_of_part(doc.footnotes.notes))
    /\ rec \notin Range(notes_of_part(doc.endnotes.notes))

FromEndnotePart(doc, rec) ==
    /\ rec \in Range(notes_of_part(doc.endnotes.notes))
    /\ rec \notin Range(notes_of_part(doc.footnotes.notes))

\* C12: in the table of a document with both parts every record taken from
\* the footnote part comes before every record taken from the endnote part.
C12_FootnotesBeforeEndnotes ==
    \A t \in TaskIds :
        (Extracted(t) /\ task[t].doc.footnotes.ok /\ task[t].doc.endnotes.ok)
        => \A i \in 1..Len(Table(t)) : \A j \in (i + 1)..Len(Table(t)) :
              ~(/\ FromEndnotePart(task[t].doc, Table(t)[i])
                /\ FromFootnotePart(task[t].doc, Table(t)[j]))

\* C13: no record of a footnote table has source id "0".
C13_NoIdZero ==
    \A c \in ConvIds : \A i \in 1..Len(conv[c].footnotes) :
        conv[c].footnotes[i].id # "0"

\* C13 witness: both parts hold a note with id "0" and readable text, both
\* extraction methods read both parts, and records were made of the others
C13_Witness ==
    /\ Extracted(1)
    /\ task[1].doc.pkg_rels = {"footnotes", "endnotes"}
    /\ Len(task[1].doc.rels) = 2
    /\ \E n \in 1..Len(task[1].doc.footnotes.notes) :
          task[1].doc.footnotes.notes[n] = Note("0", <<"s">>)
    /\ \E n \in 1..Len(task[1].doc.endnotes.notes) :
          task[1].doc.endnotes.notes[n] = Note("0", <<"t">>)
    /\ Len(Table(1)) >= 4

\* the lines of a text, cut at every newline
RECURSIVE SplitLines(_)
SplitLines(s) ==
    IF \A k \in 1..Len(s) : s[k] # "\n" THEN << s >>
    ELSE LET k == CHOOSE k \in 1..Len(s) :
                     s[k] = "\n" /\ \A m \in 1..(k - 1) : s[m] # "\n"
         IN << SubSeq(s, 1, k - 1) >> \o SplitLines(SubSeq(s, k + 1, Len(s)))

\* C18: in the written file two non-empty lines with only empty lines
\* between them have exactly one empty line between them.
C18_OneBlankLine ==
    \A t \in TaskIds :
        Finished(t) =>
            LET L == SplitLines(output[t].content)
            IN \A i \in 1..Len(L) : \A j \in (i + 1)..Len(L) :
                  (/\ L[i] # <<>> /\ L[j] # <<>>
                   /\ \A m \in (i + 1)..(j - 1) : L[m] = <<>>)
                  => j = i + 2

\* no entry of org_content holds a line break of its own
NoLineBreaks(t) ==
    \A i \in 1..Len(task[t].org_content) :
        ~Contains(task[t].org_content[i], <<"\n">>)

\* C18, amended: when no paragraph text holds a line break, two non-empty
\* lines of the written file with only empty lines between them have
\* exactly one empty line between them, except that three empty lines
\* precede the "* Footnotes" heading (the empty entry of the trailer is
\* joined like every other entry).
C18_OneBlankLineButHeading ==
    \A t \in TaskIds :
        (Finished(t) /\ NoLineBreaks(t)) =>
            LET L == SplitLines(output[t].content)
            IN \A i \in 1..Len(L) : \A j \in (i + 1)..Len(L) :
                  (/\ L[i] # <<>> /\ L[j] # <<>>
                   /\ \A m \in (i + 1)..(j - 1) : L[m] = <<>>)
                  => j = IF L[j] = FootnotesHeading THEN i + 4 ELSE i + 2

\* C18 witness: a written file with two body lines, the heading and two
\* definition lines
C18_Witness ==
    /\ Finished(1)
    /\ Len(Table(1)) = 2
    /\ Len(task[1].org_content) = 6
    /\ task[1].org_content[3] = <<>>
    /\ Len(SplitLines(output[1].content)) = 11

\* the document refers to the part of the given kind
HasPart(doc, reltype) ==
    \/ reltype \in doc.pkg_rels
    \/ \E k \in 1..Len(doc.rels) : doc.rels[k] = reltype

\* C16: extraction always hands over to paragraph conversion, and every
\* part the document refers to and that parses gets all its readable
\* notes recorded, whatever the state of the other part and of the notes
\* around them.
C16_ExtractionRecovers ==
    \A t \in TaskIds :
        /\ task[t].pc = "extract" => ENABLED Extract(t)
        /\ Extracted(t) =>
              \A reltype \in {"footnotes", "endnotes"} :
                 (/\ HasPart(task[t].doc, reltype)
                  /\ part_of(task[t].doc, reltype).ok)
                 => Range(notes_of_part(part_of(task[t].doc, reltype).notes))
                       \subseteq Range(Table(t))

(***************************************************************************)
(* Properties of SpecList: the list state machine.                         *)
(***************************************************************************)
EmptyLists(ls) == ls.list_depth_stack = <<>> /\ ls.list_item_counters = <<>>

\* C3: from empty list state, the k-th of consecutive ordered items at one
\* level L is numbered k and emitted as 2*L spaces, "k. " and the cleaned
\* text; the counter of level L is then k + 1.
C3_ConsecutiveOrdered ==
    \A i \in 1..Len(Calls) : \A j \in i..Len(Calls) :
        LET L == Detected(Calls[i]).level
            k == j - i + 1
        IN (/\ EmptyLists(Calls[i].before)
            /\ \A m \in i..j : IsItem(Calls[m], "ordered", L))
           => /\ Calls[j].lines = << NumberedLine(L, k, CleanedText(Calls[j])) >>
              /\ Calls[j].after.list_item_counters[L + 1] = k + 1

\* C3 witness: three ordered items at level 1 open the document, the third
\* is emitted as "  3. a"
C3_Witness ==
    /\ Len(Calls) >= 3
    /\ \A m \in 1..3 : IsItem(Calls[m], "ordered", 1)
    /\ Calls[3].lines = << <<" ", " ", "3", ".", " ", "a">> >>

\* C4: after ordered items numbered 1 and 2 at level 0 and one unordered
\* item at level 0, the next ordered item at level 0 is numbered 1; an
\* unordered item at level L sets the counter of L to 1 and its line
\* carries a bullet, no number.
C4_UnorderedResets ==
    /\ \A i \in 1..(Len(Calls) - 3) :
          (/\ IsItem(Calls[i], "ordered", 0)
           /\ StartsWith(Calls[i].lines[1], <<"1", ".", " ">>)
           /\ IsItem(Calls[i + 1], "ordered", 0)
           /\ StartsWith(Calls[i + 1].lines[1], <<"2", ".", " ">>)
           /\ IsItem(Calls[i + 2], "unordered", 0)
           /\ IsItem(Calls[i + 3], "ordered", 0))
          => Calls[i + 3].lines =
                << NumberedLine(0, 1, CleanedText(Calls[i + 3])) >>
    /\ \A i \in 1..Len(Calls) :
          LET L == Detected(Calls[i]).level
          IN (IsListItem(Calls[i]) /\ Detected(Calls[i]).type = "unordered")
             => /\ Calls[i].after.list_item_counters[L + 1] = 1
                /\ Len(Calls[i].lines) = 1
                /\ \E b \in {"-", "+", "*"} :
                      Calls[i].lines[1] =
                          Spaces(2 * L) \o <<b, " ">> \o CleanedText(Calls[i])

\* C4 witness: the four items of the scenario, the last emitted as "1. a"
C4_Witness ==
    /\ Len(Calls) = 4
    /\ Calls[1].lines = << <<"1", ".", " ", "a">> >>
    /\ Calls[2].lines = << <<"2", ".", " ", "a">> >>
    /\ IsItem(Calls[3], "unordered", 0)
    /\ IsItem(Calls[4], "ordered", 0)
    /\ Calls[4].lines = << <<"1", ".", " ", "a">> >>

\* C5: a list item, then a prose paragraph, then an ordered item at the
\* same level: the ordered item is numbered 1.
C5_ProseRestarts ==
    \A i \in 1..(Len(Calls) - 2) :
        LET L == Detected(Calls[i]).level
        IN (/\ IsListItem(Calls[i])
            /\ IsProse(Calls[i + 1])
            /\ IsItem(Calls[i + 2], "ordered", L))
           => Calls[i + 2].lines =
                 << NumberedLine(L, 1, CleanedText(Calls[i + 2])) >>

\* C5 witness: an item numbered 2, prose, and an ordered item numbered 1
C5_Witness ==
    \E i \in 1..(Len(Calls) - 2) :
        /\ Calls[i].lines = << <<"2", ".", " ", "a">> >>
        /\ IsProse(Calls[i + 1])
        /\ IsItem(Calls[i + 2], "ordered", 0)
        /\ Calls[i + 2].lines = << <<"1", ".", " ", "a">> >>

\* C20: list_depth_stack and list_item_counters always have the same
\* length, and right after a list item at level L both have L + 1 entries.
C20_StackLengths ==
    /\ \A c \in ConvIds :
          Len(conv[c].list_depth_stack) = Len(conv[c].list_item_counters)
    /\ \A i \in 1..Len(Calls) :
          LET e == Calls[i]
          IN /\ Len(e.after.list_depth_stack) = Len(e.after.list_item_counters)
             /\ IsListItem(e) =>
                   /\ Len(e.after.list_depth_stack) = Detected(e).level + 1
                   /\ Len(e.after.list_item_counters) = Detected(e).level + 1

\* C20 witness: an item at level 2 leaves three entries, the item at
\* level 0 after it leaves one
C20_Witness ==
    \E i \in 1..(Len(Calls) - 1) :
        /\ IsItem(Calls[i], "ordered", 2)
        /\ Len(Calls[i].after.list_depth_stack) = 3
        /\ IsItem(Calls[i + 1], "unordered", 0)
        /\ Len(Calls[i + 1].after.list_depth_stack) = 1
        /\ Len(Calls[i + 1].after.list_item_counters) = 1
        /\ conv[0].list_depth_stack = Calls[Len(Calls)].after.list_depth_stack

(***************************************************************************)
(* Properties of SpecPara: one paragraph of every shape.                   *)
(***************************************************************************)
BoldLine(line) == StartsWith(line, <<"*", "*", " ">>)

ListMarkers ==
    { <<"-", " ">>, <<"+", " ">>, <<"*", " ">> }
    \cup { str_int(n) \o <<".", " ">> : n \in 1..9 }

\* C6: a run with an endnote reference whose id is in the table yields the
\* marker (run_index, "[fn:N]"), N the position of that id in the table.
C6_EndnoteReferenceResolved ==
    \A i \in 1..Len(Calls) :
        LET e == Calls[i]
        IN \A r \in 1..Len(e.paragraph.runs) :
              \A q \in 1..Len(e.paragraph.runs[r].refs) :
                 LET ref == e.paragraph.runs[r].refs[q]
                 IN (/\ ref.kind = "endnoteReference"
                     /\ \E n \in 1..Len(e.footnotes) : e.footnotes[n].id = ref.id)
                    => \E m \in 1..Len(e.refs) : \E n \in 1..Len(e.footnotes) :
                          /\ e.footnotes[n].id = ref.id
                          /\ e.refs[m] =
                                << r - 1,
                                   <<"[", "f", "n", ":">> \o str_int(n) \o <<"]">> >>

\* C7: a non-list paragraph whose style name or id is "heading N" or
\* "headingN" is emitted as one line: N asterisks, a space, the text.
C7_HeadingStyleEmitted ==
    \A i \in 1..Len(Calls) :
        LET e == Calls[i]
            N == detect_heading_level(e.paragraph)
        IN (IsProse(e) /\ N \in 1..9)
           => e.lines = << Stars(N) \o <<" ">> \o strip(ProcessedText(e)) >>

\* C8: a recognised list item yields one list line even when centred or
\* bold; centred prose yields one "* " line even when bold; "** " lines
\* come only from prose that is not centred and has bold runs; other prose
\* is one plain line.
C8_Precedence ==
    \A i \in 1..Len(Calls) :
        LET e == Calls[i]
            centered == e.paragraph.alignment = "center"
            bold == \E r \in 1..Len(e.paragraph.runs) : e.paragraph.runs[r].bold
        IN /\ IsListItem(e) =>
                /\ Len(e.lines) = 1
                /\ \E mk \in ListMarkers :
                      e.lines[1] = Spaces(2 * Detected(e).level) \o mk
                                   \o CleanedText(e)
                /\ ~StartsWith(e.lines[1], <<"*">>)
           /\ (IsProse(e) /\ centered) =>
                e.lines = << <<"*", " ">> \o strip(ProcessedText(e)) >>
           /\ (IsProse(e) /\ ~centered /\ ~bold) =>
                e.lines = << strip(ProcessedText(e)) >>
           /\ (IsProse(e) /\ ~centered /\ bold) =>
                \E a \in 1..Len(e.lines) : BoldLine(e.lines[a])
           /\ (\E a \in 1..Len(e.lines) : BoldLine(e.lines[a])) =>
                (IsProse(e) /\ ~centered /\ bold)

\* C8 witness: centred prose with a bold run, emitted as the single line
\* "* b"
C8_Witness ==
    /\ Len(Calls) = 1
    /\ IsProse(Calls[1])
    /\ Calls[1].paragraph.alignment = "center"
    /\ Calls[1].paragraph.runs = << Run(<<"b">>, TRUE, <<>>) >>
    /\ Calls[1].lines = << <<"*", " ", "b">> >>

\* C9: in a bold-segmented paragraph every "** " line precedes every plain
\* line; runs [regular, bold, regular] give the bold line, then the two
\* regular lines.
C9_BoldLinesFirst ==
    \A i \in 1..Len(Calls) :
        LET e == Calls[i]
            runs == e.paragraph.runs
        IN (/\ IsProse(e)
            /\ e.paragraph.alignment # "center"
            /\ \E r \in 1..Len(runs) : runs[r].bold)
           => /\ \A a \in 1..Len(e.lines) : \A b \in a..Len(e.lines) :
                    BoldLine(e.lines[b]) => BoldLine(e.lines[a])
              /\ (/\ Len(runs) = 3
                  /\ ~runs[1].bold /\ runs[2].bold /\ ~runs[3].bold
                  /\ \A r \in 1..3 :
                        runs[r].refs = <<>> /\ strip(runs[r].text) # <<>>)
                 => e.lines = << <<"*", "*", " ">> \o strip(runs[2].text),
                                 strip(runs[1].text), strip(runs[3].text) >>

\* C9 witness: runs "a" regular, "b" bold, "a" regular give "** b", "a", "a"
C9_Witness ==
    /\ Len(Calls) = 1
    /\ Calls[1].paragraph.runs =
          << Run(<<"a">>, FALSE, <<>>), Run(<<"b">>, TRUE, <<>>),
             Run(<<"a">>, FALSE, <<>>) >>
    /\ Calls[1].lines = << <<"*", "*", " ", "b">>, <<"a">>, <<"a">> >>

\* text with every "[fn:N]" token deleted
RECURSIVE DeleteTokens(_)
DeleteTokens(text) ==
    IF text = <<>> THEN <<>>
    ELSE IF TokenAt(text) > 0
    THEN DeleteTokens(SubSeq(text, TokenAt(text) + 1, Len(text)))
    ELSE << Head(text) >> \o DeleteTokens(Tail(text))

\* the paragraph without its note references
NoRefs(p) ==
    [p EXCEPT !.runs = [k \in DOMAIN @ |-> [@[k] EXCEPT !.refs = <<>>]]]

\* the lines a converter in state self emits for the paragraphs ps
RECURSIVE BodyLines(_, _)
BodyLines(self, ps) ==
    IF ps = <<>> THEN <<>>
    ELSE LET r == process_paragraph(self, Head(ps))
         IN r.lines
            \o BodyLines([footnotes |-> self.footnotes,
                          list_depth_stack |-> r.list_depth_stack,
                          list_item_counters |-> r.list_item_counters],
                         Tail(ps))

\* the paragraphs task t has converted
Paragraphs(t) == [i \in 1..Len(task[t].trace) |-> task[t].trace[i].paragraph]

\* org_content of task t without the Footnotes section
Body(t) ==
    SubSeq(task[t].org_content, 1,
           Len(task[t].org_content) - Len(trailer(Table(t))))

\* C17: the output of a document, after deleting every "[fn:N]" token and
\* the Footnotes section, is line by line the output of the same
\* paragraphs without references in a document without notes.
C17_RoundTrip ==
    \A t \in TaskIds :
        Finished(t) =>
            [i \in 1..Len(Body(t)) |-> DeleteTokens(Body(t)[i])]
            = BodyLines(NewConverter,
                        [i \in 1..Len(Paragraphs(t)) |-> NoRefs(Paragraphs(t)[i])])

(***************************************************************************)
(* Properties of SpecBatch: the two thread pools.                          *)
(***************************************************************************)
(***************************************************************************)
(* Properties of SpecMix: list items, blank paragraphs, several references *)
(* on one run.                                                             *)
(***************************************************************************)
\* C21: after any paragraph that is not handled as a list item, blank ones
\* included, list_depth_stack and list_item_counters are both empty.
C21_NonListClears ==
    \A i \in 1..Len(Calls) :
        ~IsListItem(Calls[i]) => EmptyLists(Calls[i].after)

\* C21, amended: after a paragraph that is not blank and not a list item
\* both stacks are empty; a blank paragraph leaves both as they were, so
\* list context does survive an intervening blank paragraph.
C21_ProseClearsBlankKeeps ==
    \A i \in 1..Len(Calls) :
        /\ IsProse(Calls[i]) => EmptyLists(Calls[i].after)
        /\ Blank(Calls[i]) => Calls[i].after = Calls[i].before

\* C21 witness: an ordered item, a blank paragraph that leaves the counter
\* at 2, and the next ordered item numbered 2
C21_Witness ==
    /\ Len(Calls) = 3
    /\ IsItem(Calls[1], "ordered", 0)
    /\ Blank(Calls[2])
    /\ Calls[2].after.list_item_counters = <<2>>
    /\ IsItem(Calls[3], "ordered", 0)
    /\ Calls[3].lines = << <<"2", ".", " ", "a">> >>

RECURSIVE CountTokens(_)
CountTokens(text) ==
    IF text = <<>> THEN 0
    ELSE IF TokenAt(text) > 0
    THEN 1 + CountTokens(SubSeq(text, TokenAt(text) + 1, Len(text)))
    ELSE CountTokens(Tail(text))

RECURSIVE CountTokensOf(_)
CountTokensOf(lines) ==
    IF lines = <<>> THEN 0
    ELSE CountTokens(Head(lines)) + CountTokensOf(Tail(lines))

BoldSegmented(e) ==
    IsProse(e) /\ ~is_centered(e.paragraph) /\ has_bold_text(e.paragraph)

\* C22: in a bold-segmented paragraph every marker found for the paragraph
\* has its token in an emitted line, and the lines carry as many tokens as
\* there are markers, several markers of one run included.
C22_AllMarkersInSegments ==
    \A i \in 1..Len(Calls) :
        LET e == Calls[i]
        IN BoldSegmented(e) =>
              /\ \A m \in 1..Len(e.refs) :
                    \E a \in 1..Len(e.lines) : Contains(e.lines[a], e.refs[m][2])
              /\ CountTokensOf(e.lines) = Len(e.refs)

\* the tokens of the markers found for run index idx, in the order found
TokensOfRun(refs, idx) ==
    LET sel == SelectSeq(refs, LAMBDA m : m[1] = idx)
    IN join([k \in 1..Len(sel) |-> sel[k][2]])

\* every run's text followed by the tokens of its markers
Spliced(e) ==
    join([r \in 1..Len(e.paragraph.runs) |->
            e.paragraph.runs[r].text \o TokensOfRun(e.refs, r - 1)])

\* C23: the text process_paragraph works on is every run's text followed
\* at once by the tokens of all markers of that run in the order found;
\* without markers it is the concatenated run text; a plain paragraph is
\* emitted as that text, stripped.
C23_Splicing ==
    \A i \in 1..Len(Calls) :
        LET e == Calls[i]
        IN /\ ProcessedText(e) = Spliced(e)
           /\ e.refs = <<>> => ProcessedText(e) = paragraph_text(e.paragraph)
           /\ (/\ IsProse(e) /\ ~is_centered(e.paragraph)
               /\ ~has_bold_text(e.paragraph))
              => e.lines = << strip(Spliced(e)) >>

\* C23 witness: run "a" with markers for ids 2 and 7 (and an unmatched
\* reference between them), a run without text and markers, run "b" with
\* a marker for id 7: the line is "a[fn:2][fn:1]b[fn:1]"
C23_Witness ==
    \E i \in 1..Len(Calls) :
        /\ Len(Calls[i].paragraph.runs) = 3
        /\ Len(Calls[i].refs) = 3
        /\ Calls[i].lines =
              << <<"a">> \o fn_token(2) \o fn_token(1)
                 \o <<"b">> \o fn_token(1) >>

(***************************************************************************)
(* Properties of SpecNest: numbering of nested lists.                      *)
(***************************************************************************)
\* C30: a list item deeper than level L leaves the counter of L as it was,
\* so an ordered item numbered n at L, then only deeper items, then an
\* ordered item at L: this one is numbered n + 1; and the first ordered item
\* at level L + 1 after an item at level L is numbered 1.
C30_NestedNumbering ==
    LET item == [k \in 1..Len(Calls) |-> IsListItem(Calls[k])]
        kind == [k \in 1..Len(Calls) |-> Detected(Calls[k]).type]
        level == [k \in 1..Len(Calls) |-> Detected(Calls[k]).level]
        text == [k \in 1..Len(Calls) |-> CleanedText(Calls[k])]
    IN /\ \A k \in 1..Len(Calls) :
             item[k] =>
                \A L \in 0..(level[k] - 1) :
                   Len(Calls[k].before.list_item_counters) > L
                   => Calls[k].after.list_item_counters[L + 1] =
                         Calls[k].before.list_item_counters[L + 1]
       /\ \A i \in 1..Len(Calls) : \A j \in (i + 1)..Len(Calls) :
             (item[i] /\ item[j] /\ kind[j] = "ordered") =>
                /\ (/\ kind[i] = "ordered"
                    /\ level[j] = level[i]
                    /\ \A k \in (i + 1)..(j - 1) :
                          item[k] /\ level[k] > level[i])
                   => \A n \in 1..i :
                         Calls[i].lines = << NumberedLine(level[i], n, text[i]) >>
                         => Calls[j].lines =
                               << NumberedLine(level[i], n + 1, text[j]) >>
                /\ (/\ level[j] = level[i] + 1
                    /\ \A k \in (i + 1)..(j - 1) :
                          ~(item[k] /\ kind[k] = "ordered"
                            /\ level[k] = level[j]))
                   => Calls[j].lines =
                         << NumberedLine(level[j], 1, text[j]) >>

\* C30 witness: "1. a" at level 0, ordered items at levels 1 and 2, each
\* numbered 1, and the next ordered item at level 0 emitted as "2. a"
C30_Witness ==
    /\ Len(Calls) = 4
    /\ Calls[1].lines = << <<"1", ".", " ", "a">> >>
    /\ IsItem(Calls[2], "ordered", 1)
    /\ Calls[2].lines = << NumberedLine(1, 1, <<"a">>) >>
    /\ IsItem(Calls[3], "ordered", 2)
    /\ Calls[3].lines = << NumberedLine(2, 1, <<"a">>) >>
    /\ IsItem(Calls[4], "ordered", 0)
    /\ Calls[4].lines = << <<"2", ".", " ", "a">> >>

(***************************************************************************)
(* Properties of SpecConflict: the conflict prompt of the pandoc converter.*)
(***************************************************************************)
\* the mode an "all" answer asks for
AllMode(letter) ==
    CASE letter = <<"O">> -> "OVERWRITE_ALL"
      [] letter = <<"S">> -> "SKIP_ALL"
      [] letter = <<"A">> -> "APPEND_ALL"

AllChoice(typed) == strip(typed) \in { <<"O">>, <<"S">>, <<"A">> }

\* C26: once a conflict prompt was answered O, S or A, conflict_mode is the
\* matching *_ALL value and no later file of the run is prompted for: that
\* answer is the last one and no prompt is open.
C26_AllChoiceSticks ==
    \A k \in 1..Len(pandoc.answers) :
        AllChoice(pandoc.answers[k].typed) =>
            /\ pandoc.conflict_mode = AllMode(strip(pandoc.answers[k].typed))
            /\ k = Len(pandoc.answers)
            /\ pandoc.pc # "prompt"

(***************************************************************************)
(* Properties of SpecPairs: output paths of the files found in a folder.   *)
(***************************************************************************)
\* C29: the output path of every pair built from a discovered file differs
\* from its input path, and no file of the folder is overwritten by a
\* conversion.
C29_OutputDiffers ==
    /\ \A k \in 1..Len(cli.file_pairs) :
          cli.file_pairs[k][1] # cli.file_pairs[k][2]
    /\ \A i \in 1..Len(cli.listing) :
          cli.pc # "idle" => cli.disk[Root \o cli.listing[i]] = "source"

(***************************************************************************)
(* Properties of SpecSeq: one converter, one document after the other.     *)
(***************************************************************************)
\* org_content of a newly created converter for document doc with
\* paragraphs ps
FreshContent(doc, ps) ==
    LET table == extract_footnotes_from_xml(<<>>, doc)
    IN BodyLines([footnotes |-> table, list_depth_stack |-> <<>>,
                  list_item_counters |-> <<>>], ps)
       \o trailer(table)

\* C19: on a converter that converted other documents before, a
\* conversion starts from an empty footnote table and empty list stacks,
\* and what it writes is what a newly created converter writes for the
\* same document.
C19_FreshPerDocument ==
    \A t \in TaskIds :
        /\ task[t].pc = "load" => conv[task[t].self] = NewConverter
        /\ Finished(t) =>
              /\ task[t].org_content = FreshContent(task[t].doc, Paragraphs(t))
              /\ output[t].content =
                    join_sep(<<"\n", "\n">>,
                             FreshContent(task[t].doc, Paragraphs(t)))

\* C19 witness: the first document left a table and an open list on the
\* converter, the second one, converted next on the same converter, has
\* notes and an ordered item of its own and is numbered from 1
C19_Witness ==
    /\ Finished(1) /\ Finished(2)
    /\ task[1].self = task[2].self
    /\ Len(task[1].trace) = 1
    /\ task[1].trace[1].footnotes # <<>>
    /\ task[1].trace[1].after.list_item_counters = <<2>>
    /\ Len(task[2].trace) = 1
    /\ Len(task[2].trace[1].footnotes) = 2
    /\ task[2].trace[1].lines = << <<"1", ".", " ", "d", "[", "f", "n", ":", "1", "]">> >>

\* C15: the output file of a document changes only in the step that
\* writes it, which comes after the paragraphs and the trailer and ends
\* with True; a step in which a conversion fails, and every step after
\* it, leaves the file as it was, absent or with its old content.
C15_FailureLeavesNoOutput ==
    [][\A t \in TaskIds :
          /\ output'[t] # output[t] =>
                (task[t].pc = "write" /\ task'[t].result = "True")
          /\ task'[t].result = "False" => output'[t] = output[t]]_vars

\* C15 witness: a conversion failed in the paragraph loop after one
\* paragraph had produced a line, another failed while loading, and the
\* file that existed before holds its old content, the other was not created
C15_Witness ==
    /\ task[1].result = "False" /\ task[1].pc = "failed"
    /\ task[1].doc.readable /\ Len(task[1].trace) = 1
    /\ task[1].trace[1].lines # <<>>
    /\ output[1] = OldFile
    /\ task[2].result = "False" /\ ~task[2].doc.readable
    /\ output[2] = NoFile

\* the converter state of task u is still to be read by u
UsesState(u) == task[u].pc \in {"load", "extract", "paragraphs"}

\* C14: when a document of the batch fails, every other document that is
\* converted gets the output a conversion of its own would give it.
C14_FailureIsolated ==
    \A t \in TaskIds : \A u \in TaskIds :
        (t # u /\ task[t].result = "False" /\ Finished(u))
        => output[u].content =
              join_sep(<<"\n", "\n">>,
                       FreshContent(task[u].doc, Paragraphs(u)))

\* C2: the converter state (footnotes, list_depth_stack,
\* list_item_counters) one conversion in flight works on is never written
\* by a step of another conversion.
C2_OwnState ==
    [][\A t \in TaskIds : \A u \in TaskIds :
          (t # u /\ task'[t] # task[t] /\ UsesState(u))
          => conv'[task[u].self] = conv[task[u].self]]_vars

====
